---------------------------- MODULE Spec2Model ----------------------------
(***************************************************************************)
(* A model of the art-by-numbers pipeline stages:                          *)
(*   clustering/strip_removal.py   palette distances and strip removal     *)
(*   contouring/find_contours.py   shells and holes from a hierarchy       *)
(*   contouring/pruning.py         removal of small contours               *)
(*   paint_by_numbers/process.py   the callers of the above                *)
(* Python indices are kept 0-based: a dict or an array indexed by 0..N-1   *)
(* is a function on 0..N-1; a list built by append is a sequence.          *)
(***************************************************************************)
EXTENDS Integers, Sequences, FiniteSets, TLC

VARIABLES
    color_labels,         \* the palette dict: [order: keys as inserted, rgb: key -> colour]
    distance_matrix,      \* create_distance_matrix's outcome: [tag, D], tag "unset" before the call
    color_key,            \* argument of the last find_closest_color call, -1 before any
    closest_color_index,  \* result of the last find_closest_color call, -1 before any
    kmeans_image,         \* the raster kmeans_cluster returned
    image,                \* cluster_image: the raster, image[i][j] an RGB triple
    strip_in,             \* the raster handed to the last remove_strips call, as it is after the call; <<>> before any
    passes,               \* number of remove_strips calls made so far
    contours,             \* the contour list of one mask, contours[i] a polygon, i from 0
    hierarchy,            \* hierarchy[i] = <<next, previous, first child, parent>>, -1 for none
    region_pc,            \* "traced", then "built" (find_shell_holes) or "unpacked" (find_shells_and_holes)
    built,                \* the list find_shell_holes returned
    unpacked,             \* outcome of find_shells_and_holes: [tag, shells, holes]
    shells,               \* remove_small_contours' argument: a list of shells
    holes,                \* remove_small_contours' argument: one list of holes per shell
    min_area,             \* remove_small_contours' argument
    prune_pc,             \* "input", then "pruned"
    new_shells,           \* the list of shells remove_small_contours returned
    new_holes,            \* the list of hole lists remove_small_contours returned
    vc_shell,             \* find_visual_center's argument shell: a list of points
    vc_holes,             \* find_visual_center's argument holes: a list of contours
    vc_den,               \* the coordinates of vc_shell and vc_holes are the stored integers over vc_den
    vc_result,            \* outcome of find_visual_center: [tag, point, area2, polygon]
    label_shells,         \* find_label_positions' argument shells
    label_holes,          \* find_label_positions' argument shell_holes
    text_width,           \* cv2.getTextSize(str(label), font, 1, thickness)[0][0]
    label_pc,             \* "input", then "labelled"
    found_centers,        \* what find_visual_center returned for each region, in order
    label_positions,      \* the list of label positions find_label_positions returned
    label_scales,         \* the list of scales find_label_positions returned, each <<num, den>>
    cv_contours,          \* the contours cv2.findContours returned to get_mask_contours
    cv_hierarchy,         \* the hierarchy cv2.findContours returned to get_mask_contours
    trace_min_area,       \* get_mask_contours' argument min_area: NoneValue or ListValue(n)
    trace_pc,             \* "found", then "returned"
    traced,               \* what get_mask_contours returned: [contours, hierarchy]
    pbn_pc,               \* process(): "start", "loop", then "returned" or "raised"
    strip_removal_count,  \* self.strip_removal_count
    pbn_min_area,         \* self.min_area
    next_key,             \* position in label_keys of the colour the loop handles next, from 0
    masks,                \* self.masks
    self_contours,        \* self.contours
    heirarchies,          \* self.heirarchies
    self_shells,          \* self.shells
    self_holes,           \* self.holes
    pbn_image,            \* self.pbn_image: the drawing calls applied to the frame, in order
    raised,               \* the exception process() raised: [type, label], type "none" if none
    runs,                 \* number of process() calls started so far
    mask_rgb,             \* create_mask's argument rgb
    mask_out              \* the grid create_mask returned, <<>> before the call

paletteVars == <<color_labels, distance_matrix, color_key, closest_color_index>>
stripVars == <<kmeans_image, image, strip_in, passes>>
regionVars == <<contours, hierarchy, region_pc, built, unpacked>>
pruneVars == <<shells, holes, min_area, prune_pc, new_shells, new_holes>>
centerVars == <<vc_shell, vc_holes, vc_den, vc_result>>
labelVars == <<label_shells, label_holes, text_width, label_pc, found_centers,
               label_positions, label_scales>>
traceVars == <<cv_contours, cv_hierarchy, trace_min_area, trace_pc, traced>>
processVars == <<pbn_pc, strip_removal_count, pbn_min_area, next_key, masks, self_contours,
                 heirarchies, self_shells, self_holes, pbn_image, raised, runs>>
maskVars == <<mask_rgb, mask_out>>
laterVars == <<centerVars, labelVars, traceVars, processVars, maskVars>>
vars == <<paletteVars, stripVars, regionVars, pruneVars, centerVars, labelVars,
          traceVars, processVars, maskVars>>

----------------------------------------------------------------------------
(* Bounds of the model *)

\* largest palette size
MaxColors == 3
\* largest number of remove_strips calls (strip_removal_count)
MaxPasses == 2
\* raster height and width
Height == 3
Width == 4
\* largest number of contours of one mask
MaxContours == 6
\* largest number of shells handed to remove_small_contours
MaxShells == 2
\* longest side of the small rectangles handed to find_visual_center
MaxSide == 5
\* half of the longest side of the self-crossing shells
MaxLobe == 3
\* largest number of process() calls
MaxRuns == 2

----------------------------------------------------------------------------
(* Palettes *)

\* RGB triples the palettes are drawn from
Colors == {<<0, 0, 0>>, <<1, 0, 0>>, <<2, 0, 0>>, <<0, 2, 0>>, <<0, 0, 3>>}

Range(s) == {s[k] : k \in DOMAIN s}

Ascending(n) == [k \in 1..n |-> k - 1]
Descending(n) == [k \in 1..n |-> n - k]

\* the keys of the dict
Keys(labels) == Range(labels.order)

\* sorted(color_labels.items()): the keys in ascending order
RECURSIVE SortedSeq(_)
SortedSeq(S) ==
    IF S = {} THEN <<>>
    ELSE LET m == CHOOSE x \in S : \A y \in S : x <= y
         IN <<m>> \o SortedSeq(S \ {m})

\* a plausible slip: the colours are uint8 arrays, whose subtraction wraps
\* modulo 256
NormSqWrapped(c1, c2) ==
    ((c1[1] - c2[1]) % 256) * ((c1[1] - c2[1]) % 256)
        + ((c1[2] - c2[2]) % 256) * ((c1[2] - c2[2]) % 256)
        + ((c1[3] - c2[3]) % 256) * ((c1[3] - c2[3]) % 256)

\* numpy's subtraction and squared norm of two RGB triples.  The matrix holds
\* np.linalg.norm(c1 - c2); the model keeps its square, an exact integer:
\* the code only tests a distance against 0 and compares two distances with <,
\* and the square root is strictly increasing and exact at 0.
NormSq(c1, c2) ==
    (c1[1] - c2[1]) * (c1[1] - c2[1]) + (c1[2] - c2[2]) * (c1[2] - c2[2])
        + (c1[3] - c2[3]) * (c1[3] - c2[3])

\* a plausible slip: the dict is not sorted by key before the assertion, so
\* the keys must be 0..N-1 in insertion order
create_distance_matrix_unsorted(labels) ==
    LET n == Len(labels.order)
    IN IF labels.order # Ascending(n) THEN [tag |-> "AssertionError", D |-> <<>>]
       ELSE [tag |-> "ndarray",
             D |-> [i \in 0..(n - 1) |-> [j \in 0..(n - 1) |->
                NormSq(labels.rgb[i], labels.rgb[j])]]]

\* create_distance_matrix: sort by key, assert the keys are 0..N-1, then fill
\* the N x N matrix from the colours in key order
create_distance_matrix(labels) ==
    LET sorted == SortedSeq(Keys(labels))
        n == Len(sorted)
    IN IF sorted # Ascending(n) THEN [tag |-> "AssertionError", D |-> <<>>]
       ELSE [tag |-> "ndarray",
             D |-> [i \in 0..(n - 1) |-> [j \in 0..(n - 1) |->
                NormSq(labels.rgb[sorted[i + 1]], labels.rgb[sorted[j + 1]])]]]

Unset == [tag |-> "unset", D |-> <<>>]
IsMatrix(m) == m.tag = "ndarray"

\* number of rows of a matrix
Size(D) == Cardinality(DOMAIN D)

\* the loop of find_closest_color over enumerate(distance_matrix[color_key])
RECURSIVE ClosestScan(_, _, _)
ClosestScan(row, i, closest) ==
    IF i >= Cardinality(DOMAIN row) THEN closest
    ELSE IF row[i] = 0 THEN ClosestScan(row, i + 1, closest)
    ELSE IF row[i] < row[closest] THEN ClosestScan(row, i + 1, i)
    ELSE ClosestScan(row, i + 1, closest)

\* find_closest_color: closest_color_index starts at 0
find_closest_color(key, D) == ClosestScan(D[key], 0, 0)

----------------------------------------------------------------------------
(* Strip removal *)

Rows(img) == 0..(Cardinality(DOMAIN img) - 1)
Cols(img) == 0..(Cardinality(DOMAIN img[0]) - 1)

\* range(1, image.shape[0] - 1) and range(1, image.shape[1] - 1)
InteriorRows(img) == 1..(Cardinality(DOMAIN img) - 2)
InteriorCols(img) == 1..(Cardinality(DOMAIN img[0]) - 2)

\* the four neighbours read for pixel (i, j): up, down, left, right
Neighbours(img, i, j) ==
    <<img[i - 1][j], img[i + 1][j], img[i][j - 1], img[i][j + 1]>>

\* len([n for n in neighbours if np.equal(pixel, n).all()])
num_of_neighbours(img, i, j) ==
    LET nb == Neighbours(img, i, j)
    IN Cardinality({k \in 1..4 : nb[k] = img[i][j]})

\* the key lookup loop: the first key, in insertion order, whose colour
\* equals the pixel; 0 when none does
RECURSIVE KeyScan(_, _, _)
KeyScan(labels, pixel, k) ==
    IF k > Len(labels.order) THEN 0
    ELSE IF labels.rgb[labels.order[k]] = pixel THEN labels.order[k]
    ELSE KeyScan(labels, pixel, k + 1)

current_color_key(labels, pixel) == KeyScan(labels, pixel, 1)

\* a plausible slip: the index of the next colour is written, not its colour
\* (numpy broadcasts the index to the three channels)
StripPixelIndex(img, labels, D, i, j) ==
    IF num_of_neighbours(img, i, j) = 1
    THEN LET k == find_closest_color(current_color_key(labels, img[i][j]), D)
         IN <<k, k, k>>
    ELSE img[i][j]

\* the value remove_strips leaves in new_image[i, j] for an interior pixel
StripPixel(img, labels, D, i, j) ==
    IF num_of_neighbours(img, i, j) = 1
    THEN labels.rgb[find_closest_color(current_color_key(labels, img[i][j]), D)]
    ELSE img[i][j]

\* the loops of remove_strips run on one array: every interior pixel, in
\* row-major order from the k-th on, is decided from the array as the
\* pixels before it left it, and written to it
RECURSIVE InPlaceScan(_, _, _, _)
InPlaceScan(cur, labels, D, k) ==
    LET w == Cardinality(DOMAIN cur[0]) - 2
        h == Cardinality(DOMAIN cur) - 2
        i == 1 + ((k - 1) \div w)
        j == 1 + ((k - 1) % w)
    IN IF w <= 0 \/ k > w * h THEN cur
       ELSE InPlaceScan([cur EXCEPT ![i][j] = StripPixel(cur, labels, D, i, j)],
                        labels, D, k + 1)

\* a plausible slip: the pixel and its neighbours are read from new_image
remove_strips_reads_new(img, labels, D) == InPlaceScan(img, labels, D, 1)

\* a plausible slip: the loops run over every pixel and a neighbour outside
\* the raster counts as different
remove_strips_whole(img, labels, D) ==
    LET same(i, j, a, b) ==
            IF a \in Rows(img) /\ b \in Cols(img) /\ img[a][b] = img[i][j]
            THEN 1 ELSE 0
        cnt(i, j) == same(i, j, i - 1, j) + same(i, j, i + 1, j)
                     + same(i, j, i, j - 1) + same(i, j, i, j + 1)
    IN [i \in Rows(img) |-> [j \in Cols(img) |->
          IF cnt(i, j) = 1
          THEN labels.rgb[find_closest_color(current_color_key(labels, img[i][j]), D)]
          ELSE img[i][j]]]

\* a plausible slip: an isolated pixel (no equal neighbour) is replaced too
remove_strips_isolated(img, labels, D) ==
    [i \in Rows(img) |-> [j \in Cols(img) |->
        IF i \in InteriorRows(img) /\ j \in InteriorCols(img)
           /\ num_of_neighbours(img, i, j) <= 1
        THEN labels.rgb[find_closest_color(current_color_key(labels, img[i][j]), D)]
        ELSE img[i][j]]]

\* remove_strips: new_image is a copy of image; every interior pixel is
\* decided from image (never from new_image) and written to new_image
remove_strips(img, labels, D) ==
    [i \in Rows(img) |-> [j \in Cols(img) |->
        IF i \in InteriorRows(img) /\ j \in InteriorCols(img)
        THEN StripPixel(img, labels, D, i, j)
        ELSE img[i][j]]]

\* a plausible slip: new_image = image without .copy(), so that the loops
\* write to the caller's array
remove_strips_call_no_copy(img, labels, D) ==
    [image |-> InPlaceScan(img, labels, D, 1),
     new_image |-> InPlaceScan(img, labels, D, 1)]

\* a call of remove_strips as its caller sees it: the array it passed, as it
\* is after the call, and the array returned.  new_image = image.copy() is
\* an array of its own, and image is only read.
remove_strips_call(img, labels, D) ==
    [image |-> img, new_image |-> remove_strips(img, labels, D)]

----------------------------------------------------------------------------
(* Shells and holes *)

\* A Python value that is a list or None is a tuple of length 0 (None) or
\* 1 (the list): an empty list differs from None, and both compare with any
\* other value of the model.
NoneValue == <<>>
ListValue(list) == <<list>>

\* hierarchy[0, i, 3]
Parent(hier, i) == hier[i][4]

\* a plausible slip: the inner loop stops at the first hole it finds
RECURSIVE HoleScanFirstOnly(_, _, _, _)
HoleScanFirstOnly(cs, hier, i, j) ==
    IF j >= Cardinality(DOMAIN cs) THEN <<>>
    ELSE IF hier[j][4] = i THEN <<cs[j]>>
    ELSE HoleScanFirstOnly(cs, hier, i, j + 1)

\* the inner loop of find_shell_holes: the contours j, in index order from
\* j on, whose hierarchy parent is i
RECURSIVE HoleScan(_, _, _, _)
HoleScan(cs, hier, i, j) ==
    IF j >= Cardinality(DOMAIN cs) THEN <<>>
    ELSE IF Parent(hier, j) = i THEN <<cs[j]>> \o HoleScan(cs, hier, i, j + 1)
    ELSE HoleScan(cs, hier, i, j + 1)

\* the (contour, holes) tuple appended for shell i: holes is None when the
\* list of holes is empty
ShellEntry(cs, hier, i) ==
    LET found == HoleScan(cs, hier, i, 0)
    IN <<cs[i], IF Len(found) = 0 THEN NoneValue ELSE ListValue(found)>>

\* the outer loop of find_shell_holes, from contour i on
RECURSIVE ShellScan(_, _, _)
ShellScan(cs, hier, i) ==
    IF i >= Cardinality(DOMAIN cs) THEN <<>>
    ELSE IF Parent(hier, i) = -1
         THEN <<ShellEntry(cs, hier, i)>> \o ShellScan(cs, hier, i + 1)
    ELSE ShellScan(cs, hier, i + 1)

\* a plausible slip: the shell test reads the first-child column
\* (hierarchy[0, i, 2]) instead of the parent column
RECURSIVE ShellScanChildColumn(_, _, _)
ShellScanChildColumn(cs, hier, i) ==
    IF i >= Cardinality(DOMAIN cs) THEN <<>>
    ELSE IF hier[i][3] = -1
         THEN <<ShellEntry(cs, hier, i)>> \o ShellScanChildColumn(cs, hier, i + 1)
    ELSE ShellScanChildColumn(cs, hier, i + 1)

find_shell_holes_child_column(cs, hier) == ShellScanChildColumn(cs, hier, 0)

\* a plausible change: the empty list of holes is kept, not turned into None
RECURSIVE ShellScanKeepEmpty(_, _, _)
ShellScanKeepEmpty(cs, hier, i) ==
    IF i >= Cardinality(DOMAIN cs) THEN <<>>
    ELSE IF Parent(hier, i) = -1
         THEN <<<<cs[i], ListValue(HoleScan(cs, hier, i, 0))>>>>
              \o ShellScanKeepEmpty(cs, hier, i + 1)
    ELSE ShellScanKeepEmpty(cs, hier, i + 1)

find_shell_holes_keep_empty(cs, hier) == ShellScanKeepEmpty(cs, hier, 0)

\* find_shell_holes: the list of (shell, holes) tuples
find_shell_holes(cs, hier) == ShellScan(cs, hier, 0)

\* PaintByNumbers.find_shells_and_holes:
\*   shells, holes = contouring.find_shell_holes(...)
\* unpacks the returned list into two names, which raises ValueError unless
\* the list has exactly two elements
find_shells_and_holes(cs, hier) ==
    LET result == find_shell_holes(cs, hier)
    IN IF Len(result) = 2
       THEN [tag |-> "ok", shells |-> result[1], holes |-> result[2]]
       ELSE [tag |-> "ValueError", shells |-> <<>>, holes |-> <<>>]

----------------------------------------------------------------------------
(* Pruning *)

\* cv2.contourArea: the shoelace formula over the closed polygon, absolute
\* value.  The model keeps twice the area, an exact integer, and compares it
\* with twice min_area.
RECURSIVE Shoelace(_, _)
Shoelace(c, k) ==
    IF k > Len(c) THEN 0
    ELSE LET p == c[k]
             q == c[IF k = Len(c) THEN 1 ELSE k + 1]
         IN p[1] * q[2] - q[1] * p[2] + Shoelace(c, k + 1)

contourArea2(c) ==
    LET s == Shoelace(c, 1) IN IF s < 0 THEN -s ELSE s

\* a plausible change: the holes' areas are taken off the shell's area
\* before the test (the region's net area)
ShellTooSmallNet(shell, shell_holes, minArea) ==
    LET RECURSIVE Sum(_)
        Sum(k) == IF k > Len(shell_holes) THEN 0
                  ELSE contourArea2(shell_holes[k]) + Sum(k + 1)
    IN contourArea2(shell) - Sum(1) <= 2 * minArea

\* the test that skips a shell: shell_area <= min_area
ShellTooSmall(shell, shell_holes, minArea) ==
    contourArea2(shell) <= 2 * minArea

\* a plausible slip: < for <=
HoleTooSmallStrict(hole, minArea) == contourArea2(hole) < 2 * minArea

\* the test that skips a hole: hole_area <= min_area
HoleTooSmall(hole, minArea) == contourArea2(hole) <= 2 * minArea

\* the loop over shell_holes
RECURSIVE KeptHoles(_, _, _)
KeptHoles(shell_holes, minArea, k) ==
    IF k > Len(shell_holes) THEN <<>>
    ELSE IF HoleTooSmall(shell_holes[k], minArea)
         THEN KeptHoles(shell_holes, minArea, k + 1)
    ELSE <<shell_holes[k]>> \o KeptHoles(shell_holes, minArea, k + 1)

\* a plausible slip: the kept holes are appended before the shell's area is
\* tested, so that a skipped shell leaves its hole list behind
RECURSIVE PruneScanHolesFirst(_, _, _, _)
PruneScanHolesFirst(ss, hs, minArea, k) ==
    IF k > Len(ss) \/ k > Len(hs) THEN [shells |-> <<>>, holes |-> <<>>]
    ELSE LET rest == PruneScanHolesFirst(ss, hs, minArea, k + 1)
         IN [shells |-> IF ShellTooSmall(ss[k], hs[k], minArea) THEN rest.shells
                        ELSE <<ss[k]>> \o rest.shells,
             holes |-> <<KeptHoles(hs[k], minArea, 1)>> \o rest.holes]

\* the loop over zip(shells, holes), from pair k on: the kept shells and,
\* for each, its kept holes
RECURSIVE PruneScan(_, _, _, _)
PruneScan(ss, hs, minArea, k) ==
    IF k > Len(ss) \/ k > Len(hs) THEN [shells |-> <<>>, holes |-> <<>>]
    ELSE LET rest == PruneScan(ss, hs, minArea, k + 1)
         IN IF ShellTooSmall(ss[k], hs[k], minArea) THEN rest
            ELSE [shells |-> <<ss[k]>> \o rest.shells,
                  holes |-> <<KeptHoles(hs[k], minArea, 1)>> \o rest.holes]

\* remove_small_contours: (new_shells, new_holes)
remove_small_contours(ss, hs, minArea) == PruneScan(ss, hs, minArea, 1)

----------------------------------------------------------------------------
(* Label placement: labelling/label_placement.py *)

\* Coordinates are exact rationals.  A contour stores integers; the
\* coordinates of the contours of one call are those integers over a common
\* denominator den (1 for the pixel contours of cv2.findContours, 100 for the
\* docstring's unit square with the hole from 0.5, 0.2 to 0.8, 0.8).  Values
\* computed from them are fractions <<numerator, denominator>> of the stored
\* integers, in lowest terms with a positive denominator.
RECURSIVE Gcd(_, _)
Gcd(x, y) == IF y = 0 THEN x ELSE Gcd(y, x % y)

Abs(x) == IF x < 0 THEN -x ELSE x

Frac(num, den) ==
    LET top == IF den < 0 THEN -num ELSE num
        bottom == Abs(den)
        g == Gcd(Abs(top), bottom)
    IN <<top \div g, bottom \div g>>

FracLess(f, g) == f[1] * g[2] < g[1] * f[2]
FracSub(f, g) == Frac(f[1] * g[2] - g[1] * f[2], f[2] * g[2])
FracMid(f, g) == Frac(f[1] * g[2] + g[1] * f[2], 2 * f[2] * g[2])

\* the edges of a closed ring: edge k runs from ring[k] to its successor
EdgeEnd(ring, k) == ring[IF k = Len(ring) THEN 1 ELSE k + 1]

\* twice the signed area of the triangle u, v, w: positive when w lies to the
\* left of the line from u to v
Orient(u, v, w) ==
    (v[1] - u[1]) * (w[2] - u[2]) - (v[2] - u[2]) * (w[1] - u[1])

\* the segments u v and w z cross at a point interior to both
ProperCross(u, v, w, z) ==
    /\ Orient(u, v, w) * Orient(u, v, z) < 0
    /\ Orient(w, z, u) * Orient(w, z, v) < 0

\* polygon.is_valid for a polygon whose holes are simple, pairwise disjoint and
\* inside the shell (every polygon of the model): no two edges of the shell
\* cross
is_valid(polygon) ==
    \A k, l \in 1..Len(polygon.shell) :
        ~ProperCross(polygon.shell[k], EdgeEnd(polygon.shell, k),
                     polygon.shell[l], EdgeEnd(polygon.shell, l))

\* the point where the crossing segments u v and w z meet (the rings of the
\* model cross at points with integer stored coordinates)
CrossPoint(u, v, w, z) ==
    LET ou == Orient(w, z, u)
        ov == Orient(w, z, v)
    IN <<u[1] + ((v[1] - u[1]) * ou) \div (ou - ov),
         u[2] + ((v[2] - u[2]) * ou) \div (ou - ov)>>

\* the two lobes of a four-point ring one pair of whose opposite edges cross
Lobes(ring) ==
    IF ProperCross(ring[1], ring[2], ring[3], ring[4])
    THEN LET x == CrossPoint(ring[1], ring[2], ring[3], ring[4])
         IN {<<x, ring[2], ring[3]>>, <<x, ring[4], ring[1]>>}
    ELSE LET x == CrossPoint(ring[2], ring[3], ring[4], ring[1])
         IN {<<ring[1], ring[2], x>>, <<x, ring[3], ring[4]>>}

\* polygon.buffer(0) of an invalid polygon (GEOS, a library outside src/).
\* For a four-point self-crossing shell without holes GEOS keeps the lobe
\* that is wound in the direction it takes for the ring's orientation and
\* drops the other; which lobe that is is left open here.  GEOS reports a
\* failed operation as a GEOSException.
buffer0(polygon) ==
    {[tag |-> "geometry", geoms |-> <<[shell |-> lobe, holes |-> <<>>]>>]
        : lobe \in Lobes(polygon.shell)}
    \cup {[tag |-> "GEOSException", geoms |-> <<>>]}

\* the rings of a polygon: the shell, then the holes
Rings(polygon) == <<polygon.shell>> \o polygon.holes

\* polygon.representative_point() (GEOS InteriorPointArea, a library outside
\* src/), for one polygon.  The scan line lies midway between the two
\* vertex ordinates that enclose the centre of the polygon's vertical extent
\* (the model keeps twice its ordinate) ...
ScanY2(polygon) ==
    LET ys == UNION {{ring[k][2] : k \in 1..Len(ring)} : ring \in Range(Rings(polygon))}
        minY == CHOOSE y \in ys : \A z \in ys : y <= z
        maxY == CHOOSE y \in ys : \A z \in ys : y >= z
        below == {y \in ys : 2 * y <= minY + maxY}
        above == {y \in ys : 2 * y > minY + maxY}
        loY == CHOOSE y \in below : \A z \in below : y >= z
        hiY == IF above = {} THEN maxY ELSE CHOOSE y \in above : \A z \in above : y <= z
    IN loY + hiY

\* ... the edge from u to v crosses it when its ends lie on either side ...
CrossesScan(u, v, y2) ==
    \/ 2 * u[2] < y2 /\ y2 < 2 * v[2]
    \/ 2 * v[2] < y2 /\ y2 < 2 * u[2]

\* ... at this abscissa ...
CrossX(u, v, y2) ==
    Frac(2 * u[1] * (v[2] - u[2]) + (y2 - 2 * u[2]) * (v[1] - u[1]), 2 * (v[2] - u[2]))

\* ... the crossings of all rings are sorted ...
RECURSIVE SortFracs(_, _)
SortFracs(at, E) ==
    IF E = {} THEN <<>>
    ELSE LET e == CHOOSE c \in E : \A d \in E : ~FracLess(at[d], at[c])
         IN <<at[e]>> \o SortFracs(at, E \ {e})

Crossings(polygon, y2) ==
    LET rings == Rings(polygon)
        E == {e \in UNION {{<<r, k>> : k \in 1..Len(rings[r])} : r \in 1..Len(rings)} :
                CrossesScan(rings[e[1]][e[2]], EdgeEnd(rings[e[1]], e[2]), y2)}
        at == [e \in E |-> CrossX(rings[e[1]][e[2]], EdgeEnd(rings[e[1]], e[2]), y2)]
    IN SortFracs(at, E)

\* ... they bound the interior sections of the line pairwise, and the point
\* is the middle of the first section wider than all before it (the
\* polygon's first vertex if no section has a positive width)
RECURSIVE BestSection(_, _, _)
BestSection(xs, k, best) ==
    IF k + 1 > Len(xs) THEN best
    ELSE LET width == FracSub(xs[k + 1], xs[k])
         IN IF FracLess(best.width, width)
            THEN BestSection(xs, k + 2, [width |-> width, x |-> FracMid(xs[k], xs[k + 1])])
            ELSE BestSection(xs, k + 2, best)

\* [width, x, y2]: the section's width, the point's abscissa, twice its ordinate
InteriorPoint(polygon) ==
    LET y2 == ScanY2(polygon)
        best == BestSection(Crossings(polygon, y2), 1,
                            [width |-> <<0, 1>>, x |-> <<-1, 1>>])
    IN IF best.x = <<-1, 1>>
       THEN [width |-> <<0, 1>>, x |-> <<polygon.shell[1][1], 1>>, y2 |-> 2 * polygon.shell[1][2]]
       ELSE [width |-> best.width, x |-> best.x, y2 |-> y2]

\* representative_point of a geometry of several polygons: the point of the
\* first polygon whose section is wider than those of all before it
RECURSIVE WidestPoint(_, _, _)
WidestPoint(geoms, k, best) ==
    IF k > Len(geoms) THEN best
    ELSE LET here == InteriorPoint(geoms[k])
         IN IF k = 1 \/ FracLess(best.width, here.width)
            THEN WidestPoint(geoms, k + 1, here)
            ELSE WidestPoint(geoms, k + 1, best)

representative_point(geoms) ==
    WidestPoint(geoms, 1, [width |-> <<0, 1>>, x |-> <<0, 1>>, y2 |-> 0])

\* polygon.area, doubled, in squares of the stored unit: the shell's area
\* less the holes' areas, summed over the polygons of the geometry
RECURSIVE SumArea2(_, _)
SumArea2(rings, k) ==
    IF k > Len(rings) THEN 0 ELSE contourArea2(rings[k]) + SumArea2(rings, k + 1)

RECURSIVE GeomArea2(_, _)
GeomArea2(geoms, k) ==
    IF k > Len(geoms) THEN 0
    ELSE contourArea2(geoms[k].shell) - SumArea2(geoms[k].holes, 1)
         + GeomArea2(geoms, k + 1)

\* int(point.x), int(point.y): Python's int() drops the fractional part
\* (the coordinates of the model are not negative)
IntPoint(pt, den) == <<pt.x[1] \div (pt.x[2] * den), pt.y2 \div (2 * den)>>

NoneResult == [tag |-> "None", point |-> <<>>, area2 |-> 0, polygon |-> <<>>]
ValueErrorResult == [tag |-> "ValueError", point |-> <<>>, area2 |-> 0, polygon |-> <<>>]

\* the body of the try block once the (repaired) geometry is at hand
CenterOf(repaired, den) ==
    IF repaired.tag = "GEOSException" THEN NoneResult
    ELSE [tag |-> "point",
          point |-> IntPoint(representative_point(repaired.geoms), den),
          area2 |-> GeomArea2(repaired.geoms, 1),
          polygon |-> repaired.geoms]

\* find_visual_center: the set of outcomes the call can have.  A shell of
\* fewer than three points makes shapely.geometry.Polygon raise ValueError,
\* which the except clause (GEOSException only) does not catch.  holes = None
\* and holes = [] build the same polygon; both are the empty list here.
find_visual_center(shell, shell_holes, den) ==
    IF Len(shell) < 3 THEN {ValueErrorResult}
    ELSE LET polygon == [shell |-> shell, holes |-> shell_holes]
         IN IF is_valid(polygon)
            THEN {CenterOf([tag |-> "geometry", geoms |-> <<polygon>>], den)}
            ELSE {CenterOf(repaired, den) : repaired \in buffer0(polygon)}

----------------------------------------------------------------------------
(* PaintByNumbers.find_label_positions *)

\* a plausible slip: the scale is distance / width whether or not the text
\* is wider than the distance
label_scale_unguarded(area2, width) == Frac(area2, 2 * width)

\* scale = 1; if text_size[0][0] > distance: scale = distance / text_size[0][0]
\* where distance is the second value of find_visual_center (area2 / 2); the
\* scale is kept as a fraction
label_scale(area2, width) ==
    IF 2 * width > area2 THEN Frac(area2, 2 * width) ELSE <<1, 1>>

\* the loop over zip(shells, shell_holes), from pair k on: the set of the
\* outcomes [centers, positions, scales] it can have, centers being what
\* find_visual_center returned for each region.  (The pixel contours of the
\* pipeline have the denominator 1, and the shells of the model have at
\* least three points, so that find_visual_center raises nothing.)
RECURSIVE LabelScan(_, _, _, _)
LabelScan(ss, hs, width, k) ==
    IF k > Len(ss) \/ k > Len(hs)
    THEN {[centers |-> <<>>, positions |-> <<>>, scales |-> <<>>]}
    ELSE {IF center.tag = "point"
          THEN [centers |-> <<center>> \o rest.centers,
                positions |-> <<center.point>> \o rest.positions,
                scales |-> <<label_scale(center.area2, width)>> \o rest.scales]
          ELSE [centers |-> <<center>> \o rest.centers,
                positions |-> rest.positions,
                scales |-> rest.scales]
          : center \in find_visual_center(ss[k], hs[k], 1),
            rest \in LabelScan(ss, hs, width, k + 1)}

find_label_positions(ss, hs, width) == LabelScan(ss, hs, width, 1)

----------------------------------------------------------------------------
(* get_mask_contours, create_mask and the steps of PaintByNumbers.process *)

\* a list as a function on 0..n-1
ZeroBased(list) == [i \in 0..(Len(list) - 1) |-> list[i + 1]]

\* [contour for contour in contours if min_area < cv2.contourArea(contour)]
RECURSIVE LargeContours(_, _, _)
LargeContours(cs, minArea, i) ==
    IF i >= Cardinality(DOMAIN cs) THEN <<>>
    ELSE (IF 2 * minArea < contourArea2(cs[i]) THEN <<cs[i]>> ELSE <<>>)
         \o LargeContours(cs, minArea, i + 1)

\* get_mask_contours, given what cv2.findContours returned: the contours
\* are filtered when min_area is not None, the hierarchy is returned as found
get_mask_contours(outcome, minArea) ==
    [contours |-> IF minArea = NoneValue THEN outcome.contours
                  ELSE ZeroBased(LargeContours(outcome.contours, minArea[1], 0)),
     hierarchy |-> outcome.hierarchy]

\* a plausible slip: np.any for np.all
create_mask_any(img, rgb) ==
    [i \in Rows(img) |-> [j \in Cols(img) |->
        IF \E c \in 1..3 : img[i][j][c] = rgb[c] THEN 1 ELSE 0]]

\* create_mask: np.all(image_array == rgb, axis=-1).astype(int), 1 where the
\* pixel equals rgb in each of the three channels, 0 elsewhere
create_mask(img, rgb) ==
    [i \in Rows(img) |-> [j \in Cols(img) |->
        IF \A c \in 1..3 : img[i][j][c] = rgb[c] THEN 1 ELSE 0]]

\* the loop over range(self.strip_removal_count) of cluster_image
RECURSIVE StripPasses(_, _, _, _)
StripPasses(img, labels, D, count) ==
    IF count = 0 THEN img
    ELSE StripPasses(remove_strips(img, labels, D), labels, D, count - 1)

\* sorted(label_keys, key=lambda x: int(x))
label_keys(labels) == SortedSeq(Keys(labels))

\* PaintByNumbers.prune_contours as process() calls it, with the two names
\* find_shells_and_holes unpacked: shells is the tuple (contour 0, holes 0)
\* and holes is the tuple (contour 1, holes 1).  zip pairs contour 0 with
\* contour 1, whose points all have area 0, and then holes 0 with holes 1:
\* holes 0 is None or a list of contours, and cv2.contourArea raises
\* cv2.error for either.
prune_contours(ss, hs, minArea) ==
    [tag |-> "cv2.error", shells |-> <<>>, holes |-> <<>>]

----------------------------------------------------------------------------
(* Inputs *)

\* the dicts handed to create_distance_matrix: keys 0..n-1 inserted in
\* ascending or descending order, or the keys 1..n (not starting at 0)
KeyOrders(n) == {Ascending(n), Descending(n), [k \in 1..n |-> k]}

PaletteInputs ==
    UNION {UNION {{[order |-> o, rgb |-> f] : f \in [Range(o) -> Colors]}
                  : o \in KeyOrders(n)} : n \in 1..MaxColors}

\* the palettes of the strip removal runs, for n colours:
\* a ramp; the palette of test_remove_strips (keys 0 and 1 swapped on the
\* ramp, inserted as 1, 0, 2, ...); unevenly spaced colours; colours that
\* repeat.  kmeans_cluster inserts the keys in the order the labels first
\* occur in the image, which is any order.
Swapped(n) == [k \in 1..n |-> IF k = 1 THEN 1 ELSE IF k = 2 THEN 0 ELSE k - 1]

StripPalettes(n) ==
    { [order |-> Ascending(n), rgb |-> [k \in 0..(n - 1) |-> <<k, 0, 0>>]],
      [order |-> Swapped(n),
       rgb |-> [k \in 0..(n - 1) |->
                  IF k = 0 THEN <<1, 0, 0>> ELSE IF k = 1 THEN <<0, 0, 0>>
                  ELSE <<k, 0, 0>>]],
      [order |-> Descending(n), rgb |-> [k \in 0..(n - 1) |-> <<0, k * k, 0>>]],
      [order |-> Descending(n), rgb |-> [k \in 0..(n - 1) |-> <<k \div 2, 0, 0>>]] }

\* the rasters of the strip removal runs, every pixel a palette colour: the
\* first row and column have one colour, the rest of the border another,
\* and the interior pixels are free
Rasters(labels) ==
    LET K == Keys(labels)
        inner == (1..(Height - 2)) \X (1..(Width - 2))
    IN { [i \in 0..(Height - 1) |-> [j \in 0..(Width - 1) |->
            labels.rgb[IF <<i, j>> \in inner THEN f[<<i, j>>]
                       ELSE IF i = 0 \/ j = 0 THEN a ELSE b]]]
         : <<a, b, f>> \in K \X K \X [inner -> K] }

\* the rasters of Rasters(labels) whose border has one colour all around
FramedRasters(labels) ==
    {img \in Rasters(labels) : img[Height - 1][Width - 1] = img[0][0]}

\* the contour with corners (x0, y0), (x0, y1), (x1, y1), (x1, y0), in the
\* vertex order of the repository's tests
Rect(x0, y0, x1, y1) == <<<<x0, y0>>, <<x0, y1>>, <<x1, y1>>, <<x1, y0>>>>

\* contour i of a traced mask: squares that differ from one index to the next
ContourAt(i) == Rect(10 * i, 0, 10 * i + i + 1, i + 1)

\* the hierarchies of n contours that cv2.findContours(RETR_CCOMP) yields:
\* every contour is a shell (parent -1) or the hole of a shell; the shells
\* form one sibling chain and the holes of a shell another, in index order
TwoLevelParents(n) ==
    {par \in [0..(n - 1) -> -1..(n - 1)] :
        \A i \in 0..(n - 1) : par[i] # -1 => (par[i] # i /\ par[par[i]] = -1)}

HierarchyOf(par) ==
    LET sib(i) == {j \in DOMAIN par : par[j] = par[i]}
        after(i) == {j \in sib(i) : j > i}
        before(i) == {j \in sib(i) : j < i}
        kids(i) == {j \in DOMAIN par : par[j] = i}
        least(S) == IF S = {} THEN -1 ELSE CHOOSE x \in S : \A y \in S : x <= y
        most(S) == IF S = {} THEN -1 ELSE CHOOSE x \in S : \A y \in S : x >= y
    IN [i \in DOMAIN par |-> <<least(after(i)), most(before(i)), least(kids(i)), par[i]>>]

\* the shells handed to remove_small_contours, each with the holes it may
\* have, in order: the 100 x 100 shell of test_remove_small_contours with
\* holes of areas 9900, 99, 100 and 400, and a 10 x 10 shell with a hole of
\* area 4
BigShell == Rect(0, 0, 100, 100)
SmallShell == Rect(200, 0, 210, 10)

HoleCatalogue(shell) ==
    IF shell = BigShell
    THEN <<Rect(0, 0, 99, 100), Rect(99, 0, 100, 99),
           Rect(10, 10, 20, 20), Rect(30, 30, 50, 50)>>
    ELSE <<Rect(202, 2, 204, 4)>>

\* the sub-list of s at the positions in S
RECURSIVE Pick(_, _, _)
Pick(s, S, k) ==
    IF k > Len(s) THEN <<>>
    ELSE (IF k \in S THEN <<s[k]>> ELSE <<>>) \o Pick(s, S, k + 1)

RegionInputs ==
    UNION {{<<shell, Pick(HoleCatalogue(shell), S, 1)>>
            : S \in SUBSET (1..Len(HoleCatalogue(shell)))}
           : shell \in {BigShell, SmallShell}}

MinAreas == {0, 1, 4, 100, 10000}

\* the regions handed to find_visual_center: the 100 x 100 shell of
\* test_find_visual_center with the test's hole and others, pairwise apart;
\* small rectangles without holes; four-point shells whose first and third
\* edges cross (bowties); contours of one and of two points, which
\* cv2.findContours yields for a single pixel and for a line of pixels
TestHole == Rect(50, 20, 80, 80)

CenterHoleLists ==
    LET one == <<TestHole, Rect(10, 10, 20, 20), Rect(10, 85, 90, 95)>>
        other == <<Rect(10, 40, 90, 60), Rect(20, 10, 30, 20)>>
    IN {Pick(one, S, 1) : S \in SUBSET (1..Len(one))}
       \cup {Pick(other, S, 1) : S \in SUBSET (1..Len(other))}

Bowtie(w, h) == <<<<0, 0>>, <<w, h>>, <<w, 0>>, <<0, h>>>>

ValidCenterInputs ==
    {[shell |-> BigShell, holes |-> hs] : hs \in CenterHoleLists}
    \cup {[shell |-> Rect(0, 0, w, h), holes |-> <<>>] : w \in 1..MaxSide, h \in 1..MaxSide}

BowtieInputs ==
    {[shell |-> Bowtie(2 * w, 2 * h), holes |-> <<>>] : w \in 1..MaxLobe, h \in 1..MaxLobe}

CenterInputs ==
    ValidCenterInputs \cup BowtieInputs
    \cup {[shell |-> <<<<0, 0>>>>, holes |-> <<>>],
          [shell |-> <<<<0, 0>>, <<3, 0>>>>, holes |-> <<>>]}

\* the regions handed to find_label_positions: the test's shell without
\* holes, with the test's hole and with a hole across its middle; squares;
\* bowties
LabelRegionInputs ==
    {[shell |-> BigShell, holes |-> hs]
        : hs \in {<<>>, <<TestHole>>, <<Rect(10, 40, 90, 60)>>}}
    \cup {[shell |-> Rect(0, 0, w, w), holes |-> <<>>] : w \in (1..MaxSide) \cup {30, 40}}
    \cup {[shell |-> Bowtie(2 * w, 2 * w), holes |-> <<>>] : w \in 1..MaxLobe}

\* the widths cv2.getTextSize gives a label of one and of two digits at
\* scale 1 (a digit of FONT_HERSHEY_SIMPLEX is about 20 pixels wide)
TextWidths == {20, 40}

\* what cv2.findContours(mask, RETR_CCOMP, CHAIN_APPROX_NONE) can return:
\* n contours with a two-level hierarchy
FoundContours(n) ==
    {[contours |-> [i \in 0..(n - 1) |-> ContourAt(i)], hierarchy |-> HierarchyOf(par)]
        : par \in TwoLevelParents(n)}

\* for a mask without a foreground pixel it returns no contour; for any
\* other mask at least one
MaskTraces(mask) ==
    IF \A i \in Rows(mask) : \A j \in Cols(mask) : mask[i][j] = 0
    THEN FoundContours(0)
    ELSE UNION {FoundContours(n) : n \in 1..(MaxShells + 1)}

\* the min_area arguments of get_mask_contours: None (the default) or a number
TraceMinAreas == {NoneValue} \cup {ListValue(a) : a \in {0, 1, 4, 9}}

\* the key sets of the dicts kmeans_cluster can return: the labels that
\* occur, 0..n-1 when every cluster has a pixel, fewer when one has none
ProcessKeySets(n) == {0..(n - 1), 1..n, {2 * k : k \in 0..(n - 1)}}

\* the keys in the order of their first occurrence: the insertion order of
\* cluster_dict (for label in labels)
FirstSeen(t) ==
    LET seen[k \in 0..Len(t)] ==
            IF k = 0 THEN <<>>
            ELSE IF t[k] \in Range(seen[k - 1]) THEN seen[k - 1]
            ELSE Append(seen[k - 1], t[k])
    IN seen[Len(t)]

\* the raster of a labelling: the border and the interior have the colour of
\* label t[1] but for the first two interior pixels of the first interior
\* row, which have those of t[2] and t[3]; the colour of label k is (k, 0, 0)
ProcessRaster(t) ==
    [i \in 0..(Height - 1) |-> [j \in 0..(Width - 1) |->
        <<IF <<i, j>> = <<1, 1>> THEN t[2] ELSE IF <<i, j>> = <<1, 2>> THEN t[3] ELSE t[1],
          0, 0>>]]

\* what kmeans_cluster can return: a dict and the raster of its colours
ProcessInputs ==
    UNION {UNION {{[labels |-> [order |-> FirstSeen(t), rgb |-> [k \in K |-> <<k, 0, 0>>]],
                    raster |-> ProcessRaster(t)]
                   : t \in {u \in K \X K \X K : Range(u) = K}}
                  : K \in ProcessKeySets(n)}
           : n \in 1..MaxColors}

\* the denominators of the coordinates: pixels, halves, hundredths
Dens == {1, 2, 100}


----------------------------------------------------------------------------
(* The palette: create_distance_matrix and find_closest_color *)

PaletteIdle ==
    /\ color_key = -1
    /\ closest_color_index = -1

StripIdle ==
    /\ kmeans_image = <<>>
    /\ image = <<>>
    /\ strip_in = <<>>
    /\ passes = 0

RegionIdle ==
    /\ contours = <<>>
    /\ hierarchy = <<>>
    /\ region_pc = "idle"
    /\ built = <<>>
    /\ unpacked = [tag |-> "unset", shells |-> <<>>, holes |-> <<>>]

PruneIdle ==
    /\ shells = <<>>
    /\ holes = <<>>
    /\ min_area = 0
    /\ prune_pc = "idle"
    /\ new_shells = <<>>
    /\ new_holes = <<>>

CenterIdle ==
    /\ vc_shell = <<>>
    /\ vc_holes = <<>>
    /\ vc_den = 1
    /\ vc_result = [tag |-> "unset", point |-> <<>>, area2 |-> 0, polygon |-> <<>>]

LabelIdle ==
    /\ label_shells = <<>>
    /\ label_holes = <<>>
    /\ text_width = 0
    /\ label_pc = "idle"
    /\ found_centers = <<>>
    /\ label_positions = <<>>
    /\ label_scales = <<>>

TraceIdle ==
    /\ cv_contours = <<>>
    /\ cv_hierarchy = <<>>
    /\ trace_min_area = NoneValue
    /\ trace_pc = "idle"
    /\ traced = [contours |-> <<>>, hierarchy |-> <<>>]

ProcessIdle ==
    /\ pbn_pc = "idle"
    /\ strip_removal_count = 0
    /\ pbn_min_area = 0
    /\ next_key = 0
    /\ masks = <<>>
    /\ self_contours = <<>>
    /\ heirarchies = <<>>
    /\ self_shells = <<>>
    /\ self_holes = <<>>
    /\ pbn_image = <<>>
    /\ raised = [type |-> "none", label |-> -1]
    /\ runs = 0

MaskIdle ==
    /\ mask_rgb = <<0, 0, 0>>
    /\ mask_out = <<>>

LaterIdle == CenterIdle /\ LabelIdle /\ TraceIdle /\ ProcessIdle /\ MaskIdle

InitPalette ==
    /\ color_labels \in PaletteInputs
    /\ distance_matrix = Unset
    /\ PaletteIdle
    /\ StripIdle
    /\ RegionIdle
    /\ PruneIdle
    /\ LaterIdle

CreateDistanceMatrix ==
    /\ distance_matrix = Unset
    /\ distance_matrix' = create_distance_matrix(color_labels)
    /\ UNCHANGED <<color_labels, color_key, closest_color_index, stripVars, regionVars, pruneVars, laterVars>>

FindClosestColor(key) ==
    /\ IsMatrix(distance_matrix)
    /\ key \in DOMAIN distance_matrix.D
    /\ color_key' = key
    /\ closest_color_index' = find_closest_color(key, distance_matrix.D)
    /\ UNCHANGED <<color_labels, distance_matrix, stripVars, regionVars, pruneVars, laterVars>>

NextPalette ==
    \/ CreateDistanceMatrix
    \/ \E key \in 0..(MaxColors - 1) : FindClosestColor(key)

SpecPalette == InitPalette /\ [][NextPalette]_vars

----------------------------------------------------------------------------
(* PaintByNumbers.cluster_image: the strip removal passes *)

InitStrips ==
    /\ color_labels \in UNION {StripPalettes(n) : n \in 2..MaxColors}
    /\ distance_matrix = create_distance_matrix(color_labels)
    /\ PaletteIdle
    /\ kmeans_image \in Rasters(color_labels)
    /\ image = kmeans_image
    /\ strip_in = <<>>
    /\ passes = 0
    /\ RegionIdle
    /\ PruneIdle
    /\ LaterIdle

\* one turn of the loop over range(strip_removal_count)
RemoveStrips ==
    /\ passes < MaxPasses
    /\ LET call == remove_strips_call(image, color_labels, distance_matrix.D)
       IN /\ strip_in' = call.image
          /\ image' = call.new_image
    /\ passes' = passes + 1
    /\ UNCHANGED <<paletteVars, kmeans_image, regionVars, pruneVars, laterVars>>

NextStrips == RemoveStrips

SpecStrips == InitStrips /\ [][NextStrips]_vars

----------------------------------------------------------------------------
(* PaintByNumbers.cluster_image on a framed raster: the raster whose masks *)
(* PaintByNumbers.find_mask takes, colour by colour                        *)

InitFramed ==
    /\ color_labels \in UNION {StripPalettes(n) : n \in 2..MaxColors}
    /\ distance_matrix = create_distance_matrix(color_labels)
    /\ PaletteIdle
    /\ kmeans_image \in FramedRasters(color_labels)
    /\ image = kmeans_image
    /\ strip_in = <<>>
    /\ passes = 0
    /\ RegionIdle
    /\ PruneIdle
    /\ LaterIdle

NextFramed == RemoveStrips

SpecFramed == InitFramed /\ [][NextFramed]_vars

----------------------------------------------------------------------------
(* find_shell_holes and its caller PaintByNumbers.find_shells_and_holes *)

InitRegions ==
    /\ \E n \in 0..MaxContours : \E par \in TwoLevelParents(n) :
          /\ contours = [i \in 0..(n - 1) |-> ContourAt(i)]
          /\ hierarchy = HierarchyOf(par)
    /\ region_pc = "traced"
    /\ built = <<>>
    /\ unpacked = [tag |-> "unset", shells |-> <<>>, holes |-> <<>>]
    /\ color_labels = [order |-> <<>>, rgb |-> <<>>]
    /\ distance_matrix = Unset
    /\ PaletteIdle
    /\ StripIdle
    /\ PruneIdle
    /\ LaterIdle

\* a direct call, as in test_find_shell_holes
FindShellHoles ==
    /\ region_pc = "traced"
    /\ built' = find_shell_holes(contours, hierarchy)
    /\ region_pc' = "built"
    /\ UNCHANGED <<contours, hierarchy, unpacked, paletteVars, stripVars, pruneVars, laterVars>>

\* the call process() makes
FindShellsAndHoles ==
    /\ region_pc = "traced"
    /\ unpacked' = find_shells_and_holes(contours, hierarchy)
    /\ region_pc' = "unpacked"
    /\ UNCHANGED <<contours, hierarchy, built, paletteVars, stripVars, pruneVars, laterVars>>

NextRegions == FindShellHoles \/ FindShellsAndHoles

SpecRegions == InitRegions /\ [][NextRegions]_vars

----------------------------------------------------------------------------
(* remove_small_contours *)

InitPrune ==
    /\ \E n \in 0..MaxShells : \E rs \in [1..n -> RegionInputs] :
          /\ shells = [k \in 1..n |-> rs[k][1]]
          /\ holes = [k \in 1..n |-> rs[k][2]]
    /\ min_area \in MinAreas
    /\ prune_pc = "input"
    /\ new_shells = <<>>
    /\ new_holes = <<>>
    /\ color_labels = [order |-> <<>>, rgb |-> <<>>]
    /\ distance_matrix = Unset
    /\ PaletteIdle
    /\ StripIdle
    /\ RegionIdle
    /\ LaterIdle

RemoveSmallContours ==
    /\ prune_pc = "input"
    /\ LET result == remove_small_contours(shells, holes, min_area)
       IN /\ new_shells' = result.shells
          /\ new_holes' = result.holes
    /\ prune_pc' = "pruned"
    /\ UNCHANGED <<shells, holes, min_area, paletteVars, stripVars, regionVars, laterVars>>

NextPrune == RemoveSmallContours

SpecPrune == InitPrune /\ [][NextPrune]_vars

----------------------------------------------------------------------------
(* find_visual_center *)

NoPalette ==
    /\ color_labels = [order |-> <<>>, rgb |-> <<>>]
    /\ distance_matrix = Unset
    /\ PaletteIdle

InitCenter ==
    /\ \E region \in CenterInputs :
          /\ vc_shell = region.shell
          /\ vc_holes = region.holes
    /\ vc_den \in Dens
    /\ vc_result = [tag |-> "unset", point |-> <<>>, area2 |-> 0, polygon |-> <<>>]
    /\ NoPalette
    /\ StripIdle
    /\ RegionIdle
    /\ PruneIdle
    /\ LabelIdle
    /\ TraceIdle
    /\ ProcessIdle
    /\ MaskIdle

FindVisualCenter ==
    /\ vc_result.tag = "unset"
    /\ vc_result' \in find_visual_center(vc_shell, vc_holes, vc_den)
    /\ UNCHANGED <<vc_shell, vc_holes, vc_den, paletteVars, stripVars, regionVars, pruneVars,
                   labelVars, traceVars, processVars, maskVars>>

NextCenter == FindVisualCenter

SpecCenter == InitCenter /\ [][NextCenter]_vars

----------------------------------------------------------------------------
(* PaintByNumbers.find_label_positions *)

NoRaster ==
    /\ NoPalette
    /\ StripIdle

InitLabels ==
    /\ \E n \in 0..MaxShells : \E regions \in [1..n -> LabelRegionInputs] :
          /\ label_shells = [k \in 1..n |-> regions[k].shell]
          /\ label_holes = [k \in 1..n |-> regions[k].holes]
    /\ text_width \in TextWidths
    /\ label_pc = "input"
    /\ found_centers = <<>>
    /\ label_positions = <<>>
    /\ label_scales = <<>>
    /\ NoRaster
    /\ RegionIdle
    /\ PruneIdle
    /\ CenterIdle
    /\ TraceIdle
    /\ ProcessIdle
    /\ MaskIdle

FindLabelPositions ==
    /\ label_pc = "input"
    /\ \E outcome \in find_label_positions(label_shells, label_holes, text_width) :
          /\ found_centers' = outcome.centers
          /\ label_positions' = outcome.positions
          /\ label_scales' = outcome.scales
    /\ label_pc' = "labelled"
    /\ UNCHANGED <<label_shells, label_holes, text_width, paletteVars, stripVars, regionVars,
                   pruneVars, centerVars, traceVars, processVars, maskVars>>

NextLabels == FindLabelPositions

SpecLabels == InitLabels /\ [][NextLabels]_vars

----------------------------------------------------------------------------
(* get_mask_contours *)

InitTrace ==
    /\ \E n \in 0..MaxContours : \E outcome \in FoundContours(n) :
          /\ cv_contours = outcome.contours
          /\ cv_hierarchy = outcome.hierarchy
    /\ trace_min_area \in TraceMinAreas
    /\ trace_pc = "found"
    /\ traced = [contours |-> <<>>, hierarchy |-> <<>>]
    /\ NoRaster
    /\ RegionIdle
    /\ PruneIdle
    /\ CenterIdle
    /\ LabelIdle
    /\ ProcessIdle
    /\ MaskIdle

GetMaskContours ==
    /\ trace_pc = "found"
    /\ traced' = get_mask_contours([contours |-> cv_contours, hierarchy |-> cv_hierarchy],
                                   trace_min_area)
    /\ trace_pc' = "returned"
    /\ UNCHANGED <<cv_contours, cv_hierarchy, trace_min_area, paletteVars, stripVars,
                   regionVars, pruneVars, centerVars, labelVars, processVars, maskVars>>

NextTrace == GetMaskContours

SpecTrace == InitTrace /\ [][NextTrace]_vars

----------------------------------------------------------------------------
(* PaintByNumbers.process *)

InitProcess ==
    /\ \E input \in ProcessInputs :
          /\ color_labels = input.labels
          /\ kmeans_image = input.raster
    /\ distance_matrix = Unset
    /\ PaletteIdle
    /\ image = <<>>
    /\ strip_in = <<>>
    /\ passes = 0
    /\ pbn_pc = "start"
    /\ strip_removal_count \in {0, MaxPasses}
    /\ pbn_min_area = 20
    /\ next_key = 0
    /\ masks = <<>>
    /\ self_contours = <<>>
    /\ heirarchies = <<>>
    /\ self_shells = <<>>
    /\ self_holes = <<>>
    /\ pbn_image = <<>>
    /\ raised = [type |-> "none", label |-> -1]
    /\ runs = 0
    /\ RegionIdle
    /\ PruneIdle
    /\ CenterIdle
    /\ LabelIdle
    /\ TraceIdle
    /\ MaskIdle

\* the first process() call of an instance, up to its loop: the resets (of
\* self.mask, not of self.masks), cluster_image() and the empty frame
ClusterImage ==
    /\ pbn_pc = "start"
    /\ runs' = runs + 1
    /\ distance_matrix' = create_distance_matrix(color_labels)
    /\ IF IsMatrix(distance_matrix')
       THEN /\ image' = StripPasses(kmeans_image, color_labels, distance_matrix'.D,
                                    strip_removal_count)
            /\ strip_in' = IF strip_removal_count = 0 THEN <<>>
                           ELSE StripPasses(kmeans_image, color_labels, distance_matrix'.D,
                                            strip_removal_count - 1)
            /\ passes' = strip_removal_count
            /\ pbn_pc' = "loop"
            /\ raised' = raised
       ELSE /\ image' = kmeans_image
            /\ pbn_pc' = "raised"
            /\ raised' = [type |-> "AssertionError", label |-> -1]
            /\ UNCHANGED <<strip_in, passes>>
    /\ self_contours' = <<>>
    /\ heirarchies' = <<>>
    /\ self_shells' = <<>>
    /\ self_holes' = <<>>
    /\ UNCHANGED <<color_labels, color_key, closest_color_index, kmeans_image,
                   strip_removal_count, pbn_min_area, next_key, masks, pbn_image,
                   regionVars, pruneVars, centerVars, labelVars, traceVars, maskVars>>

\* one turn of the loop over label_keys, or the return after the last turn
ProcessLabel ==
    /\ pbn_pc = "loop"
    /\ IF next_key >= Len(label_keys(color_labels))
       THEN /\ pbn_pc' = "returned"
            /\ UNCHANGED <<next_key, masks, self_contours, heirarchies, self_shells,
                           self_holes, pbn_image, raised>>
       ELSE LET key == label_keys(color_labels)[next_key + 1]
                mask == create_mask(image, color_labels.rgb[key])
            IN \E outcome \in MaskTraces(mask) : \E width \in TextWidths :
                 LET trace == get_mask_contours(outcome, NoneValue)
                     parts == find_shells_and_holes(trace.contours, trace.hierarchy)
                     pruned == IF parts.tag = "ok"
                               THEN prune_contours(parts.shells, parts.holes, pbn_min_area)
                               ELSE parts
                 IN /\ masks' = Append(masks, mask)
                    /\ self_contours' = Append(self_contours, trace.contours)
                    /\ heirarchies' = Append(heirarchies, trace.hierarchy)
                    /\ IF pruned.tag = "ok"
                       THEN \E labelled \in find_label_positions(pruned.shells, pruned.holes, width) :
                              /\ self_shells' = Append(self_shells, pruned.shells)
                              /\ self_holes' = Append(self_holes, pruned.holes)
                              /\ pbn_image' = pbn_image
                                    \o <<[draw |-> "labels", label |-> key,
                                          positions |-> labelled.positions,
                                          scales |-> labelled.scales],
                                         [draw |-> "contours", label |-> key,
                                          positions |-> trace.contours, scales |-> <<>>]>>
                              /\ next_key' = next_key + 1
                              /\ pbn_pc' = "loop"
                              /\ raised' = raised
                       ELSE /\ pbn_pc' = "raised"
                            /\ raised' = [type |-> pruned.tag, label |-> key]
                            /\ UNCHANGED <<next_key, self_shells, self_holes, pbn_image>>
    /\ UNCHANGED <<paletteVars, stripVars, strip_removal_count, pbn_min_area, runs,
                   regionVars, pruneVars, centerVars, labelVars, traceVars, maskVars>>

\* process() has returned or raised
ProcessOver == pbn_pc \in {"returned", "raised"}

\* a further process() call on the instance that has run before: after the
\* resets, self.cluster_image() calls the array that cluster_image() stored
\* under its own name in the earlier call, which raises TypeError
ProcessAgain ==
    /\ ProcessOver
    /\ runs < MaxRuns
    /\ runs' = runs + 1
    /\ self_contours' = <<>>
    /\ heirarchies' = <<>>
    /\ self_shells' = <<>>
    /\ self_holes' = <<>>
    /\ pbn_pc' = "raised"
    /\ raised' = [type |-> "TypeError", label |-> -1]
    /\ UNCHANGED <<paletteVars, stripVars, strip_removal_count, pbn_min_area, next_key,
                   masks, pbn_image, regionVars, pruneVars, centerVars, labelVars,
                   traceVars, maskVars>>

\* PaintByNumbers(...) once more, for the same picture: the new instance
\* has no attribute of its own for the accumulators, cluster_image or
\* pbn_image, so that it reads the class attributes; of these only the list
\* masks was ever changed (by self.masks.append)
NewInstance ==
    /\ ProcessOver
    /\ runs < MaxRuns
    /\ pbn_pc' = "start"
    /\ distance_matrix' = Unset
    /\ image' = <<>>
    /\ strip_in' = <<>>
    /\ passes' = 0
    /\ next_key' = 0
    /\ self_contours' = <<>>
    /\ heirarchies' = <<>>
    /\ self_shells' = <<>>
    /\ self_holes' = <<>>
    /\ pbn_image' = <<>>
    /\ raised' = [type |-> "none", label |-> -1]
    /\ UNCHANGED <<color_labels, color_key, closest_color_index, kmeans_image,
                   strip_removal_count, pbn_min_area, masks, runs,
                   regionVars, pruneVars, centerVars, labelVars, traceVars, maskVars>>

NextProcess == ClusterImage \/ ProcessLabel \/ ProcessAgain \/ NewInstance

SpecProcess == InitProcess /\ [][NextProcess]_vars

----------------------------------------------------------------------------
(* create_mask *)

InitMask ==
    /\ \E input \in ProcessInputs :
          /\ color_labels = input.labels
          /\ kmeans_image = input.raster
          /\ image = input.raster
    /\ mask_rgb \in Colors
    /\ mask_out = <<>>
    /\ distance_matrix = Unset
    /\ PaletteIdle
    /\ strip_in = <<>>
    /\ passes = 0
    /\ RegionIdle
    /\ PruneIdle
    /\ CenterIdle
    /\ LabelIdle
    /\ TraceIdle
    /\ ProcessIdle

\* a direct call, as in test_create_mask and PaintByNumbers.find_mask
CreateMask ==
    /\ mask_out = <<>>
    /\ mask_out' = create_mask(image, mask_rgb)
    /\ UNCHANGED <<mask_rgb, paletteVars, stripVars, regionVars, pruneVars, centerVars,
                   labelVars, traceVars, processVars>>

NextMask == CreateMask

SpecMask == InitMask /\ [][NextMask]_vars

----------------------------------------------------------------------------
(* Properties of the palette and of strip removal *)

\* nearest_other(i, D) of the specification: the index j # i that minimises
\* D[i][j], the smallest such index on a tie
NearestOther(i, D) ==
    CHOOSE j \in DOMAIN D \ {i} :
        \A k \in DOMAIN D \ {i} :
            D[i][j] < D[i][k] \/ (D[i][j] = D[i][k] /\ j <= k)

Interior(img) == InteriorRows(img) \X InteriorCols(img)

\* C1: every interior pixel of the raster returned by remove_strips is the
\* input pixel when 0 or at least 2 of its four neighbours have its colour,
\* and the palette colour of nearest_other(own index, D) when exactly 1 has.
C1_StripRule ==
    passes >= 1 =>
        \A p \in Interior(strip_in) :
            LET pixel == strip_in[p[1]][p[2]]
                own == current_color_key(color_labels, pixel)
            IN image[p[1]][p[2]] =
                 IF num_of_neighbours(strip_in, p[1], p[2]) = 1
                 THEN color_labels.rgb[NearestOther(own, distance_matrix.D)]
                 ELSE pixel

\* the palette's colours are pairwise different
DistinctColors(labels) ==
    \A a, b \in Keys(labels) : a # b => labels.rgb[a] # labels.rgb[b]

\* C2: for a palette of at least two colours, find_closest_color(i, D)
\* never returns i itself, i = 0 included.  (Stated for palettes whose
\* colours are pairwise different, the reading most favourable to the code.)
C2_NeverSelf ==
    (color_key >= 0 /\ Size(distance_matrix.D) >= 2 /\ DistinctColors(color_labels))
        => closest_color_index # color_key

\* C3: find_closest_color(i, D) returns the index j # i with the least
\* D[i][j], and the smallest such index when several tie.  (Stated for
\* palettes of at least two pairwise different colours, so that such a j
\* exists and no other colour is at distance 0.)
C3_NearestSmallestIndex ==
    (color_key >= 0 /\ Size(distance_matrix.D) >= 2 /\ DistinctColors(color_labels))
        => closest_color_index = NearestOther(color_key, distance_matrix.D)

\* C4: after any number of remove_strips passes every pixel of the first and
\* last row and of the first and last column equals the pixel of the raster
\* the first pass was given.
C4_BorderKept ==
    \A i \in Rows(image) : \A j \in Cols(image) :
        <<i, j>> \notin Interior(image) => image[i][j] = kmeans_image[i][j]

\* two passes have run, both changed the interior, and the border carries
\* two colours
C4_Witness ==
    /\ passes >= 2
    /\ image # strip_in
    /\ strip_in # kmeans_image
    /\ kmeans_image[0][0] # kmeans_image[Height - 1][Width - 1]
    /\ C4_BorderKept

\* no pixel the pass examines has exactly one neighbour of its own colour
NoStripPixel(img) ==
    \A p \in Interior(img) : num_of_neighbours(img, p[1], p[2]) # 1

\* C5: when no pixel of the raster has exactly one neighbour of its colour,
\* remove_strips returns the raster it was given, and a second application
\* returns it again.  (Stated over the pixels the pass examines, which
\* covers the rasters where no pixel at all has one such neighbour.)
C5_NoStripNoChange ==
    (passes >= 1 /\ NoStripPixel(strip_in)) =>
        /\ image = strip_in
        /\ remove_strips(image, color_labels, distance_matrix.D) = image

\* a pass has run on a raster without strip pixels that has an isolated
\* interior pixel whose colour is not that of key 0
C5_Witness ==
    /\ passes >= 1
    /\ NoStripPixel(strip_in)
    /\ \E p \in Interior(strip_in) :
          /\ num_of_neighbours(strip_in, p[1], p[2]) = 0
          /\ strip_in[p[1]][p[2]] # color_labels.rgb[0]
    /\ image = strip_in

----------------------------------------------------------------------------
(* Properties of find_shell_holes *)

\* the indices of the contours without a parent, ascending
TopLevel == SortedSeq({i \in DOMAIN contours : Parent(hierarchy, i) = -1})

\* the contours whose parent is contour i, in index order
ChildrenOf(i) ==
    LET idx == SortedSeq({j \in DOMAIN contours : Parent(hierarchy, j) = i})
    IN [k \in 1..Len(idx) |-> contours[idx[k]]]

\* C6: find_shell_holes emits exactly one region per contour whose parent
\* is -1, with that contour as shell and in ascending index order, and never
\* a region whose shell is a contour with a parent.
C6_OneRegionPerShell ==
    region_pc = "built" =>
        /\ Len(built) = Len(TopLevel)
        /\ \A k \in 1..Len(built) : built[k][1] = contours[TopLevel[k]]
        /\ \A k \in 1..Len(built) : \A i \in DOMAIN contours :
              Parent(hierarchy, i) # -1 => built[k][1] # contours[i]

\* several shells, and a hole that comes before a shell in the contour list
C6_Witness ==
    /\ region_pc = "built"
    /\ Len(built) >= 2
    /\ \E i, j \in DOMAIN contours :
          i < j /\ Parent(hierarchy, i) # -1 /\ Parent(hierarchy, j) = -1
    /\ C6_OneRegionPerShell

C8_UnpacksToParallelLists ==
    region_pc = "unpacked" =>
        /\ unpacked.tag = "ok"
        /\ unpacked.shells = [k \in 1..Len(TopLevel) |-> contours[TopLevel[k]]]
        /\ Len(unpacked.holes) = Len(TopLevel)
        /\ \A k \in 1..Len(TopLevel) :
              \/ unpacked.holes[k] = ListValue(ChildrenOf(TopLevel[k]))
              \/ ChildrenOf(TopLevel[k]) = <<>> /\ unpacked.holes[k] = NoneValue

----------------------------------------------------------------------------
(* Properties of remove_small_contours *)

\* twice the area of region k less the areas of its holes
NetArea2(k) ==
    LET RECURSIVE Sum(_)
        Sum(m) == IF m > Len(holes[k]) THEN 0
                  ELSE contourArea2(holes[k][m]) + Sum(m + 1)
    IN contourArea2(shells[k]) - Sum(1)

\* the region of the specification's example: area 10,000, two holes of
\* total area 9,999
ExampleHoles == <<Rect(0, 0, 99, 100), Rect(99, 0, 100, 99)>>

\* C9 as stated: a region is dropped exactly when its shell's area less the
\* areas of its holes is <= min_area; the example region is kept for
\* min_area = 0 and dropped for min_area = 1.
C9_DropsOnNetArea ==
    prune_pc = "pruned" =>
        /\ new_shells = Pick(shells, {k \in 1..Len(shells) : NetArea2(k) > 2 * min_area}, 1)
        /\ (shells = <<BigShell>> /\ holes = <<ExampleHoles>>) =>
              /\ min_area = 0 => new_shells = <<BigShell>>
              /\ min_area = 1 => new_shells = <<>>

\* C9 as amended: a region is dropped exactly when its shell's own area is
\* <= min_area, the holes' areas not being taken off; the example region is
\* kept for min_area = 0 and for min_area = 1.
C9_DropsOnShellArea ==
    prune_pc = "pruned" =>
        /\ new_shells =
              Pick(shells, {k \in 1..Len(shells) : contourArea2(shells[k]) > 2 * min_area}, 1)
        /\ (shells = <<BigShell>> /\ holes = <<ExampleHoles>> /\ min_area \in {0, 1})
              => new_shells = <<BigShell>>

\* the example region, pruned with min_area = 1, is kept
C9_Witness ==
    /\ prune_pc = "pruned"
    /\ shells = <<BigShell>>
    /\ holes = <<ExampleHoles>>
    /\ min_area = 1
    /\ new_shells = <<BigShell>>

\* the positions of the kept shells, ascending
KeptShells ==
    SortedSeq({k \in 1..Len(shells) : contourArea2(shells[k]) > 2 * min_area})

\* C10: a shell is kept if and only if its own area is > min_area; the
\* holes of a removed shell go with it; a hole of a kept shell is kept if
\* and only if its own area is > min_area.
C10_ShellAndHoleRule ==
    prune_pc = "pruned" =>
        /\ Len(new_shells) = Len(KeptShells)
        /\ Len(new_holes) = Len(KeptShells)
        /\ \A k \in 1..Len(KeptShells) :
              LET from == holes[KeptShells[k]]
              IN /\ new_shells[k] = shells[KeptShells[k]]
                 /\ new_holes[k] =
                      Pick(from, {m \in 1..Len(from) :
                                    contourArea2(from[m]) > 2 * min_area}, 1)

\* test_remove_small_contours with min_area = 100, after a shell of area
\* 100: that shell goes, the big shell stays, its hole of area 100 goes and
\* its hole of area 400 stays
C10_Witness ==
    /\ prune_pc = "pruned"
    /\ min_area = 100
    /\ shells = <<SmallShell, BigShell>>
    /\ holes = <<<<Rect(202, 2, 204, 4)>>, <<Rect(10, 10, 20, 20), Rect(30, 30, 50, 50)>>>>
    /\ new_shells = <<BigShell>>
    /\ new_holes = <<<<Rect(30, 30, 50, 50)>>>>


----------------------------------------------------------------------------
(* Properties of find_visual_center *)

\* the square of the distance from pt to the segment u v, a fraction
SegDistSq(pt, u, v) ==
    LET dx == v[1] - u[1]
        dy == v[2] - u[2]
        len2 == dx * dx + dy * dy
        along == (pt[1] - u[1]) * dx + (pt[2] - u[2]) * dy
        cross == Orient(u, v, pt)
    IN IF along <= 0
       THEN <<(pt[1] - u[1]) * (pt[1] - u[1]) + (pt[2] - u[2]) * (pt[2] - u[2]), 1>>
       ELSE IF along >= len2
       THEN <<(pt[1] - v[1]) * (pt[1] - v[1]) + (pt[2] - v[2]) * (pt[2] - v[2]), 1>>
       ELSE Frac(cross * cross, len2)

\* the square of the clearance of pt: the least distance to an edge of the
\* shell or of a hole
ClearanceSq(pt, shell, shell_holes) ==
    LET rings == <<shell>> \o shell_holes
        ds == UNION {{SegDistSq(pt, rings[r][k], EdgeEnd(rings[r], k)) : k \in 1..Len(rings[r])}
                     : r \in 1..Len(rings)}
    IN CHOOSE d \in ds : \A e \in ds : ~FracLess(e, d)

\* pt is strictly inside the convex ring / inside it or on its boundary
InsideConvex(pt, ring) ==
    \/ \A k \in 1..Len(ring) : Orient(ring[k], EdgeEnd(ring, k), pt) > 0
    \/ \A k \in 1..Len(ring) : Orient(ring[k], EdgeEnd(ring, k), pt) < 0

ClosedConvex(pt, ring) ==
    \/ \A k \in 1..Len(ring) : Orient(ring[k], EdgeEnd(ring, k), pt) >= 0
    \/ \A k \in 1..Len(ring) : Orient(ring[k], EdgeEnd(ring, k), pt) <= 0

\* pt is strictly inside the shell and strictly outside every hole (the
\* rings of a valid region of the model are rectangles)
InRegion(pt, shell, shell_holes) ==
    /\ InsideConvex(pt, shell)
    /\ \A k \in 1..Len(shell_holes) : ~ClosedConvex(pt, shell_holes[k])

\* the region handed to find_visual_center is a valid polygon
ValidRegion ==
    /\ Len(vc_shell) >= 3
    /\ is_valid([shell |-> vc_shell, holes |-> vc_holes])

\* the returned point in the stored unit of the contours
ReturnedPoint == <<vc_result.point[1] * vc_den, vc_result.point[2] * vc_den>>

\* C11: for a valid region the second value find_visual_center returns is the
\* clearance of the returned point: its least distance to an edge of the
\* shell or of a hole.  (The second value is area2 / 2 stored square units;
\* it equals the clearance when its square equals the clearance's square.)
C11_SecondValueIsClearance ==
    (ValidRegion /\ vc_result.tag = "point") =>
        LET c == ClearanceSq(ReturnedPoint, vc_shell, vc_holes)
        IN vc_result.area2 * vc_result.area2 * c[2] = 4 * vc_den * vc_den * c[1]

\* C12: for a valid region the point find_visual_center returns lies strictly
\* inside the shell and strictly outside every hole.
C12_StrictlyInside ==
    (ValidRegion /\ vc_result.tag = "point") =>
        InRegion(ReturnedPoint, vc_shell, vc_holes)

\* points spread over the bounding box of the shell
LatticeCells == 10

Lattice(shell) ==
    LET xs == {shell[k][1] : k \in 1..Len(shell)}
        ys == {shell[k][2] : k \in 1..Len(shell)}
        minX == CHOOSE x \in xs : \A z \in xs : x <= z
        maxX == CHOOSE x \in xs : \A z \in xs : x >= z
        minY == CHOOSE y \in ys : \A z \in ys : y <= z
        maxY == CHOOSE y \in ys : \A z \in ys : y >= z
    IN {<<minX + (i * (maxX - minX)) \div LatticeCells,
          minY + (j * (maxY - minY)) \div LatticeCells>> : i, j \in 0..LatticeCells}

\* C13: for a valid region no point inside the shell and outside the holes
\* has a larger clearance than the point find_visual_center returns.
\* (Compared with the points of a lattice over the region.)
C13_MaximisesClearance ==
    (ValidRegion /\ vc_result.tag = "point") =>
        \A q \in Lattice(vc_shell) :
            InRegion(q, vc_shell, vc_holes) =>
                ~FracLess(ClearanceSq(ReturnedPoint, vc_shell, vc_holes),
                          ClearanceSq(q, vc_shell, vc_holes))

\* C14: for an invalid shell find_visual_center returns None, or a point
\* inside (or on the boundary of) the repaired polygon; no exception
\* escapes.
C14_InvalidShellContained ==
    (~ValidRegion /\ vc_result.tag # "unset") =>
        \/ vc_result.tag = "None"
        \/ /\ vc_result.tag = "point"
           /\ \E k \in 1..Len(vc_result.polygon) :
                 ClosedConvex(ReturnedPoint, vc_result.polygon[k].shell)

----------------------------------------------------------------------------
(* Properties of PaintByNumbers.process *)

\* the keys of the palette are exactly 0..N-1
ValidKeys(labels) == Keys(labels) = 0..(Cardinality(Keys(labels)) - 1)

\* the palette colours without a pixel in the raster after strip removal
EmptyColours ==
    {k \in Keys(color_labels) :
        \A i \in Rows(image) : \A j \in Cols(image) : image[i][j] # color_labels.rgb[k]}

----------------------------------------------------------------------------
(* Properties of find_label_positions *)

\* the number of regions among the first k that got a label
LabelledUpTo(k) == Cardinality({m \in 1..k : found_centers[m].tag = "point"})

\* the width fits twice the clearance of the label position pt in the part g
\* of the region
FitsClearance(pt, g) ==
    /\ InRegion(pt, g.shell, g.holes)
    /\ LET c == ClearanceSq(pt, g.shell, g.holes)
       IN text_width * text_width * c[2] <= 4 * c[1]

\* C19: the scale of every labelled region is at most 1, and it is 1 when
\* the width of the label at scale 1 is at most twice the clearance of the
\* label position.
C19_ScaleAtMostOne ==
    label_pc = "labelled" =>
        \A k \in 1..Len(found_centers) :
            found_centers[k].tag = "point" =>
                LET scale == label_scales[LabelledUpTo(k)]
                    center == found_centers[k]
                IN /\ ~FracLess(<<1, 1>>, scale)
                   /\ (\E g \in 1..Len(center.polygon) :
                          FitsClearance(center.point, center.polygon[g]))
                         => scale = <<1, 1>>

\* a region was labelled at scale 1 whose label fits twice the clearance,
\* and a region was labelled at a scale below 1
C19_Witness ==
    /\ label_pc = "labelled"
    /\ \E k \in 1..Len(found_centers) :
          /\ found_centers[k].tag = "point"
          /\ \E g \in 1..Len(found_centers[k].polygon) :
                FitsClearance(found_centers[k].point, found_centers[k].polygon[g])
          /\ label_scales[LabelledUpTo(k)] = <<1, 1>>
    /\ \E k \in 1..Len(found_centers) :
          /\ found_centers[k].tag = "point"
          /\ FracLess(label_scales[LabelledUpTo(k)], <<1, 1>>)

----------------------------------------------------------------------------
(* Properties of get_mask_contours *)

\* C20: get_mask_contours returns one hierarchy entry per returned contour,
\* and every index in the hierarchy is -1 or a position of the returned
\* contour list.
C20_HierarchyMatchesContours ==
    trace_pc = "returned" =>
        LET n == Cardinality(DOMAIN traced.contours)
        IN /\ Cardinality(DOMAIN traced.hierarchy) = n
           /\ \A k \in DOMAIN traced.hierarchy : \A f \in 1..4 :
                 traced.hierarchy[k][f] \in -1..(n - 1)

----------------------------------------------------------------------------
(* Properties of create_distance_matrix *)

\* the square of the Euclidean distance between the colours of keys i and j
KeyDistanceSq(i, j) ==
    LET d(c) == color_labels.rgb[i][c] - color_labels.rgb[j][c]
    IN d(1) * d(1) + d(2) * d(2) + d(3) * d(3)

\* C21: for a palette with the keys 0..N-1 the matrix create_distance_matrix
\* builds is N x N, non-negative and symmetric, has a zero diagonal, and
\* holds at [i][j] the Euclidean distance between the colours of the keys i
\* and j.  (The matrix of the model holds the squares of the distances.)
C21_DistanceMatrix ==
    (distance_matrix # Unset /\ Keys(color_labels) = 0..(Len(color_labels.order) - 1)) =>
        LET n == Len(color_labels.order)
            D == distance_matrix.D
        IN /\ IsMatrix(distance_matrix)
           /\ DOMAIN D = 0..(n - 1)
           /\ \A i \in 0..(n - 1) :
                 /\ DOMAIN D[i] = 0..(n - 1)
                 /\ D[i][i] = 0
                 /\ \A j \in 0..(n - 1) :
                       /\ D[i][j] >= 0
                       /\ D[i][j] = D[j][i]
                       /\ D[i][j] = KeyDistanceSq(i, j)

\* a matrix was built for three colours whose keys were not inserted in
\* ascending order, with two different distances in one row
C21_Witness ==
    /\ IsMatrix(distance_matrix)
    /\ Len(color_labels.order) >= 3
    /\ color_labels.order # Ascending(Len(color_labels.order))
    /\ \E i, j, k \in DOMAIN distance_matrix.D :
          /\ distance_matrix.D[i][j] > 0
          /\ distance_matrix.D[i][j] # distance_matrix.D[i][k]
          /\ distance_matrix.D[i][k] > 0

----------------------------------------------------------------------------
(* Properties of repeated process() calls *)

\* the number of colours of the palette of the latest run
NumColours == Cardinality(Keys(color_labels))

\* C27: when a process() call is over, the accumulators of the instance hold
\* entries of that call only: masks holds no more than one entry per palette
\* colour, its k-th entry being the mask of the k-th colour of this call's
\* raster, contours, heirarchies, shells and holes hold no more than one
\* entry per colour either, and after a call that returned each of the five
\* holds exactly one entry per colour.
C27_OneEntryPerColour ==
    (ProcessOver /\ image # <<>>) =>
        /\ Len(masks) <= NumColours
        /\ \A k \in 1..Len(masks) :
              k <= NumColours =>
                  masks[k] = create_mask(image, color_labels.rgb[label_keys(color_labels)[k]])
        /\ Len(self_contours) <= NumColours
        /\ Len(heirarchies) <= NumColours
        /\ Len(self_shells) <= NumColours
        /\ Len(self_holes) <= NumColours
        /\ pbn_pc = "returned" =>
              /\ Len(masks) = NumColours
              /\ Len(self_contours) = NumColours
              /\ Len(heirarchies) = NumColours
              /\ Len(self_shells) = NumColours
              /\ Len(self_holes) = NumColours

----------------------------------------------------------------------------
(* Properties of the regions process() labels and outlines *)

\* a process() call that got to its loop is over
LoopOver == ProcessOver /\ raised.type \notin {"AssertionError", "TypeError"}

\* the regions of the k-th colour handled: the shells find_shell_holes found
\* among the contours recorded for it, each with the list of its holes
RegionsOf(k) == find_shell_holes(self_contours[k], heirarchies[k])

\* the regions of the k-th colour that survive pruning, as the parallel
\* lists [shells, holes]
SurvivingOf(k) ==
    LET regions == RegionsOf(k)
    IN remove_small_contours(
           [r \in 1..Len(regions) |-> regions[r][1]],
           [r \in 1..Len(regions) |->
               IF regions[r][2] = NoneValue THEN <<>> ELSE regions[r][2][1]],
           pbn_min_area)

SurvivingContours(k) ==
    LET kept == SurvivingOf(k)
    IN Range(kept.shells)
       \cup UNION {Range(kept.holes[r]) : r \in 1..Len(kept.holes)}

----------------------------------------------------------------------------
(* Properties of create_mask *)

\* C22: the grid create_mask returns has the raster's height and width, and
\* its cell is 1 where the pixel of the raster is the target colour and 0
\* everywhere else.
C22_MaskOfColour ==
    mask_out # <<>> =>
        /\ DOMAIN mask_out = DOMAIN image
        /\ \A i \in DOMAIN image :
              /\ DOMAIN mask_out[i] = DOMAIN image[i]
              /\ \A j \in DOMAIN image[i] :
                    mask_out[i][j] = IF image[i][j] = mask_rgb THEN 1 ELSE 0

\* the target colour occurs at several pixels, and another pixel equals it
\* in two channels but not in the third
C22_Witness ==
    /\ mask_out # <<>>
    /\ Cardinality({p \in Rows(image) \X Cols(image) : mask_out[p[1]][p[2]] = 1}) >= 2
    /\ \E p \in Rows(image) \X Cols(image) :
          /\ mask_out[p[1]][p[2]] = 0
          /\ image[p[1]][p[2]][2] = mask_rgb[2]
          /\ image[p[1]][p[2]][3] = mask_rgb[3]

----------------------------------------------------------------------------
(* Properties of the hole lists of find_shell_holes *)

\* the contours met from contour j on by following the next-sibling
\* pointers (hierarchy[0, j, 0]) until there is none
RECURSIVE SiblingChain(_)
SiblingChain(j) ==
    IF j = -1 THEN <<>> ELSE <<contours[j]>> \o SiblingChain(hierarchy[j][1])

\* the list of holes of the k-th region built, the empty list for None
BuiltHoles(k) == IF built[k][2] = NoneValue THEN <<>> ELSE built[k][2][1]

\* C23: the list of holes find_shell_holes builds for a shell is the
\* sequence of contours met by starting at the shell's first-child pointer
\* and following the next-sibling pointers until there is none; one shell
\* with two holes, and no other contour, yields one region with two holes.
C23_HolesFollowSiblingChain ==
    region_pc = "built" =>
        /\ Len(built) = Len(TopLevel)
        /\ \A k \in 1..Len(built) :
              BuiltHoles(k) = SiblingChain(hierarchy[TopLevel[k]][3])
        /\ (Len(TopLevel) = 1 /\ Cardinality(DOMAIN contours) = 3) =>
              /\ Len(built) = 1
              /\ Len(BuiltHoles(1)) = 2

\* one shell with two holes, one before it and one after it in the contour
\* list, gave one region with the two holes
C23_Witness ==
    /\ region_pc = "built"
    /\ Cardinality(DOMAIN contours) = 3
    /\ Parent(hierarchy, 1) = -1
    /\ Parent(hierarchy, 0) = 1
    /\ Parent(hierarchy, 2) = 1
    /\ Len(built) = 1
    /\ BuiltHoles(1) = <<contours[0], contours[2]>>

----------------------------------------------------------------------------
(* Properties of the lists remove_small_contours returns *)

\* the elements of a from the i-th on are, in their order, among the
\* elements of b from the j-th on
RECURSIVE Embeds(_, _, _, _)
Embeds(a, i, b, j) ==
    IF i > Len(a) THEN TRUE
    ELSE IF j > Len(b) THEN FALSE
    ELSE IF a[i] = b[j] THEN Embeds(a, i + 1, b, j + 1)
    ELSE Embeds(a, i, b, j + 1)

\* the returned lists have one length; the returned shells are input shells
\* at ascending positions, and the k-th returned hole list holds, in their
\* order, holes of the input hole list at the position of the k-th shell
StructureKept ==
    /\ Len(new_shells) = Len(new_holes)
    /\ \E at \in [1..Len(new_shells) -> 1..Len(shells)] :
          /\ \A k \in 1..(Len(new_shells) - 1) : at[k] < at[k + 1]
          /\ \A k \in 1..Len(new_shells) :
                /\ new_shells[k] = shells[at[k]]
                /\ Embeds(new_holes[k], 1, holes[at[k]], 1)

----------------------------------------------------------------------------
(* Properties of the passes of remove_strips *)

\* C25: after a pass every interior pixel is what the pixel and its four
\* neighbours in the raster handed to the pass decide: a pixel the pass
\* rewrote before it does not count.
C25_DecidedFromPassStart ==
    passes >= 1 =>
        \A p \in Interior(strip_in) :
            image[p[1]][p[2]] =
                StripPixel(strip_in, color_labels, distance_matrix.D, p[1], p[2])

\* a pass rewrote the first interior pixel, and its result is not the one
\* a pass deciding from the rewritten pixels gives
C25_Witness ==
    /\ passes >= 1
    /\ image[1][1] # strip_in[1][1]
    /\ image # InPlaceScan(strip_in, color_labels, distance_matrix.D, 1)

MasksAt(i, j) ==
    {k \in Keys(color_labels) : create_mask(image, color_labels.rgb[k])[i][j] = 1}

\* C29: for a palette of pairwise different colours, after any number of
\* passes every pixel of the raster is foreground in the mask of exactly one
\* palette colour.
C29_MasksPartition ==
    DistinctColors(color_labels) =>
        \A i \in Rows(image) : \A j \in Cols(image) : Cardinality(MasksAt(i, j)) = 1

\* two passes each rewrote a pixel, the first of them with a colour that is
\* not the colour of key 0
C29_Witness ==
    /\ passes >= 2
    /\ DistinctColors(color_labels)
    /\ image # strip_in
    /\ \E p \in Interior(image) :
          /\ strip_in[p[1]][p[2]] # kmeans_image[p[1]][p[2]]
          /\ strip_in[p[1]][p[2]] # color_labels.rgb[0]
    /\ \A i \in Rows(image) : \A j \in Cols(image) : Cardinality(MasksAt(i, j)) = 1

=============================================================================
